---- MODULE Spec2Model ----
(***************************************************************************)
(* Model of the Open WebUI model-config editor: the raw/edit               *)
(* reconciliation (normalizeModel, mergeToRaw), the RawStore               *)
(* (rawModelsRef), the bounded undo stack (undoStackRef) and the event     *)
(* handlers of the Home component that change them.                        *)
(*                                                                         *)
(* JavaScript values are tagged records, so that values of different       *)
(* JavaScript types can be compared: an object is Obj(f) with f a function *)
(* from its own keys to values; a key whose value is Undefined is an own   *)
(* property holding undefined, which is not the same as a missing key.     *)
(* Key order of objects is not modelled: documents are compared by content.*)
(***************************************************************************)
EXTENDS Integers, Sequences, FiniteSets, TLC

VARIABLES
    models,        \* useState<ModelConfig[]>: the current record set
    selectedId,    \* useState<string | null>
    hasUnsaved,    \* useState(false): the unsaved flag
    deleteTarget,  \* useState<string | null>: id awaiting delete confirmation
    rawModels,     \* rawModelsRef.current: Map id -> raw record, in insertion order
    undoStack,     \* undoStackRef.current: ModelConfig[][]
    fetchPending,  \* the mount-time fetch has not completed yet
    now,           \* Math.floor(Date.now() / 1000)
    toast,         \* the notification raised by the last handler ("none": no toast)
    event,         \* the handler that ran last
    past,          \* history: the record sets as they were before each mutation
                   \* not yet undone (exact values, never evicted)
    fnRaw,         \* function harness: the raw argument
    fnEdited,      \* function harness: the edited argument
    fnResult,      \* function harness: the value returned
    fnPc,          \* function harness: which function has been applied
    presets,       \* PresetsProvider: tags, owners, profileImages, urlIndexes
    presetRefs,    \* the preset fields whose state is the DEFAULT_* constant itself
    storage,       \* localStorage item "owce-presets" (Undefined: no item)
    presetFile,    \* the file last handed to the presets import
    presetOps      \* preset operations and reloads so far

vars == <<models, selectedId, hasUnsaved, deleteTarget, rawModels, undoStack,
          fetchPending, now, toast, event, past,
          fnRaw, fnEdited, fnResult, fnPc,
          presets, presetRefs, storage, presetFile, presetOps>>

appVars == <<models, selectedId, hasUnsaved, deleteTarget, rawModels, undoStack,
             fetchPending, now, toast, event, past>>

fnVars == <<fnRaw, fnEdited, fnResult, fnPc>>

presetVars == <<presets, presetRefs, storage, presetFile, presetOps>>

(***************************************************************************)
(* JavaScript values                                                       *)
(***************************************************************************)
Undefined == [t |-> "undefined"]
Null == [t |-> "null"]
Str(s) == [t |-> "string", v |-> s]
Num(n) == [t |-> "number", v |-> n]
Bool(b) == [t |-> "boolean", v |-> b]
Obj(f) == [t |-> "object", v |-> f]
Arr(s) == [t |-> "array", v |-> s]
NaN == [t |-> "NaN"]

EmptyMap == [k \in {} |-> Undefined]

IsObj(x) == x.t = "object"
IsArr(x) == x.t = "array"

\* x === undefined || x === null   (the test behind ?? and ?.)
Nullish(x) == x.t \in {"undefined", "null"}

\* a ?? b
Coalesce(a, b) == IF Nullish(a) THEN b ELSE a

\* !x
Falsy(x) == \/ Nullish(x)
            \/ x = Str("")
            \/ x = Num(0)
            \/ x = Bool(FALSE)

\* Object.keys(x) of an object (a number, boolean or undefined spread has none)
Keys(x) == IF IsObj(x) THEN DOMAIN x.v ELSE {}

\* x[k] and x?.[k] on a value that is not null or undefined at a plain read
Get(x, k) == IF IsObj(x) /\ k \in DOMAIN x.v THEN x.v[k] ELSE Undefined

\* { ...x } : own keys of an object; null, undefined, numbers, booleans give {}
Spread(x) == IF IsObj(x) THEN x.v ELSE EmptyMap

\* { ...f, ...g } on key maps
Assign(f, g) == [k \in (DOMAIN f) \cup (DOMAIN g) |->
                    IF k \in DOMAIN g THEN g[k] ELSE f[k]]

\* Object.keys(x).length
KeysLength(x) == IF IsObj(x) THEN Cardinality(DOMAIN x.v)
                 ELSE IF IsArr(x) THEN Len(x.v) ELSE 0

\* x.length === 0
LengthIsZero(x) == IsArr(x) /\ Len(x.v) = 0

\* `${x}` for the values that occur as ids and names
Text(x) == IF x.t = "string" THEN x.v
           ELSE IF x.t = "number" THEN ToString(x.v)
           ELSE x.t

(***************************************************************************)
(* JSON.parse(JSON.stringify(x)): a key holding undefined is dropped from  *)
(* an object, an undefined array element becomes null, NaN becomes null.    *)
(***************************************************************************)
RECURSIVE JsonCopy(_)
JsonCopy(x) ==
    IF IsObj(x)
    THEN Obj([k \in {j \in DOMAIN x.v : x.v[j] # Undefined} |-> JsonCopy(x.v[k])])
    ELSE IF IsArr(x)
    THEN Arr([i \in 1..Len(x.v) |->
                 IF x.v[i] = Undefined THEN Null ELSE JsonCopy(x.v[i])])
    ELSE IF x = NaN THEN Null
    ELSE x

\* JSON.parse(JSON.stringify(list)) of a list of records
JsonCopyAll(list) == [i \in 1..Len(list) |-> JsonCopy(list[i])]

(***************************************************************************)
(* normalizeModel (part_000 lines 43-66)                                   *)
(***************************************************************************)
\* m.id on null or undefined throws a TypeError
ReadThrows(m) == Nullish(m)

\* m.meta?.k
MetaOf(m, k) == Get(Get(m, "meta"), k)

\* normalizeModel that hands the raw record on without defaulting anything
normalizeNoDefaults(m) == m

normalizeModel(m) ==
    Obj([id |-> Coalesce(Get(m, "id"), Str("")),
         name |-> Coalesce(Get(m, "name"), Coalesce(Get(m, "id"), Str("Unknown"))),
         owned_by |-> Coalesce(Get(m, "owned_by"), Str("openai")),
         openai |-> Coalesce(Get(m, "openai"),
                             Obj([id |-> Coalesce(Get(m, "id"), Str(""))])),
         urlIdx |-> Coalesce(Get(m, "urlIdx"), Num(0)),
         connection_type |-> Coalesce(Get(m, "connection_type"), Str("external")),
         user_id |-> Coalesce(Get(m, "user_id"), Str("")),
         base_model_id |-> Coalesce(Get(m, "base_model_id"), Null),
         params |-> Coalesce(Get(m, "params"), Obj(EmptyMap)),
         meta |-> Obj([profile_image_url |->
                           Coalesce(MetaOf(m, "profile_image_url"), Str("")),
                       description |-> Coalesce(MetaOf(m, "description"), Null),
                       capabilities |->
                           Coalesce(MetaOf(m, "capabilities"), Obj(EmptyMap)),
                       suggestion_prompts |->
                           Coalesce(MetaOf(m, "suggestion_prompts"), Null),
                       tags |-> Coalesce(MetaOf(m, "tags"), Arr(<<>>))]),
         access_control |-> Coalesce(Get(m, "access_control"), Null),
         is_active |-> Coalesce(Get(m, "is_active"), Bool(TRUE)),
         updated_at |-> Coalesce(Get(m, "updated_at"), Num(now)),
         created_at |-> Coalesce(Get(m, "created_at"), Num(now))])

\* The keys of the normalized schema (the keys normalizeModel writes)
SchemaKeys == {"id", "name", "owned_by", "openai", "urlIdx", "connection_type",
               "user_id", "base_model_id", "params", "meta", "access_control",
               "is_active", "updated_at", "created_at"}

(***************************************************************************)
(* mergeToRaw (part_000 lines 68-107)                                      *)
(***************************************************************************)
\* lines 82-84: the edited sub-field holds a value that is not "empty"
NonEmpty(ev) ==
    /\ ev # Undefined
    /\ ev # Str("")
    /\ ev # Null
    /\ ~(IsArr(ev) /\ Len(ev.v) = 0)
    /\ ~(IsObj(ev) /\ KeysLength(ev) = 0)

\* lines 75-77: raw has no meta and the edited meta holds nothing worth writing
MetaSkipped(rawVal, em) ==
    /\ rawVal = Undefined
    /\ Falsy(Get(em, "profile_image_url"))
    /\ Falsy(Get(em, "description"))
    /\ (Falsy(Get(em, "capabilities")) \/ KeysLength(Get(em, "capabilities")) = 0)
    /\ (Falsy(Get(em, "tags")) \/ LengthIsZero(Get(em, "tags")))

\* lines 78-90
MergeMeta(rawVal, em) ==
    LET base == Spread(rawVal)
        written == IF Falsy(em) THEN {}
                   ELSE {mk \in Keys(em) :
                            NonEmpty(em.v[mk]) \/ Get(rawVal, mk) # Undefined}
    IN  Obj([k \in (DOMAIN base) \cup written |->
                IF k \in written THEN em.v[k] ELSE base[k]])

\* the params branch without the spread of the raw params
MergeParamsEditedOnly(rawVal, ep) ==
    Obj([k \in {j \in Keys(ep) : ep.v[j] # Undefined} |-> ep.v[k]])

\* lines 92-99
MergeParams(rawVal, ep) ==
    IF rawVal = Undefined /\ KeysLength(ep) = 0
    THEN Obj(EmptyMap)
    ELSE LET all == Assign(Spread(rawVal), Spread(ep))
         IN  Obj([k \in {j \in DOMAIN all : all[j] # Undefined} |-> all[k]])

\* line 101
MergeOpenai(rawVal, eo) == Obj(Assign(Spread(rawVal), Spread(eo)))

\* lines 70-106, for a raw record that is present
MergePresent(raw, edited) ==
    LET r == Spread(raw)
        e == Spread(edited)
        skip == /\ "meta" \in DOMAIN e
                /\ MetaSkipped(Get(raw, "meta"), e["meta"])
        loop == IF skip THEN (DOMAIN e) \ {"meta"} ELSE DOMAIN e
    IN  Obj([key \in (DOMAIN r) \cup loop |->
                IF key \notin loop THEN r[key]
                ELSE IF key = "meta" THEN MergeMeta(Get(raw, "meta"), e[key])
                ELSE IF key = "params" THEN MergeParams(Get(raw, "params"), e[key])
                ELSE IF key = "openai" THEN MergeOpenai(Get(raw, "openai"), e[key])
                ELSE e[key]])

\* mergeToRaw without the early return: an absent raw merged as an empty one
mergeAbsentAsEmpty(raw, edited) ==
    MergePresent(IF Falsy(raw) THEN Obj(EmptyMap) ELSE raw, edited)

mergeToRaw(raw, edited) ==
    IF Falsy(raw) THEN edited ELSE MergePresent(raw, edited)

(***************************************************************************)
(* The RawStore: a JavaScript Map, kept as its entries in insertion order  *)
(***************************************************************************)
\* map.get(k): undefined when there is no entry
MapGet(map, k) ==
    IF \E i \in 1..Len(map) : map[i].key = k
    THEN map[CHOOSE i \in 1..Len(map) : map[i].key = k].val
    ELSE Undefined

MapHas(map, k) == \E i \in 1..Len(map) : map[i].key = k

\* map.set(k, v): an existing key keeps its place and takes the new value
MapSet(map, k, v) ==
    IF MapHas(map, k)
    THEN [i \in 1..Len(map) |-> IF map[i].key = k THEN [key |-> k, val |-> v]
                                 ELSE map[i]]
    ELSE Append(map, [key |-> k, val |-> v])

(***************************************************************************)
(* Loading a parsed document (lines 165-169 and 319-322)                   *)
(***************************************************************************)
\* Array.isArray(data) ? data : [data]
AsArray(data) == IF IsArr(data) THEN data.v ELSE <<data>>

\* index of the first element whose m.id read throws, 0 when none does
FirstThrow(arr) ==
    IF \E i \in 1..Len(arr) : ReadThrows(arr[i])
    THEN CHOOSE i \in 1..Len(arr) :
            /\ ReadThrows(arr[i])
            /\ \A j \in 1..(i - 1) : ~ReadThrows(arr[j])
    ELSE 0

\* rawModelsRef.current.clear(); then set(m.id, m) for the first n elements
RECURSIVE SetAll(_, _)
SetAll(arr, n) ==
    IF n = 0 THEN <<>>
    ELSE MapSet(SetAll(arr, n - 1), Get(arr[n], "id"), arr[n])

\* the RawStore after arr.forEach(...) ran, to completion or to the throw
RawAfterLoad(arr) ==
    IF FirstThrow(arr) = 0 THEN SetAll(arr, Len(arr))
    ELSE SetAll(arr, FirstThrow(arr) - 1)

\* arr.map(normalizeModel)
NormalizeAll(arr) == [i \in 1..Len(arr) |-> normalizeModel(arr[i])]

(***************************************************************************)
(* The undo stack (lines 41, 123-128)                                      *)
(***************************************************************************)
MAX_UNDO == 50

\* pushUndo that refuses the new snapshot when the stack is full
pushUndoDropNewest(stack, snapshot) ==
    IF Len(stack) >= MAX_UNDO THEN stack
    ELSE Append(stack, JsonCopyAll(snapshot))

pushUndo(stack, snapshot) ==
    LET pushed == Append(stack, JsonCopyAll(snapshot))
    IN  IF Len(pushed) > MAX_UNDO THEN Tail(pushed) ELSE pushed

Front(s) == SubSeq(s, 1, Len(s) - 1)
Last(s) == s[Len(s)]

(***************************************************************************)
(* Derived values of a render of Home                                      *)
(***************************************************************************)
IdOf(m) == Get(m, "id")

ModelIds == {IdOf(models[i]) : i \in 1..Len(models)}

\* models.find((m) => m.id === id) as an index, 0 when there is none
FindIndex(list, id) ==
    IF \E i \in 1..Len(list) : IdOf(list[i]) = id
    THEN CHOOSE i \in 1..Len(list) :
            /\ IdOf(list[i]) = id
            /\ \A j \in 1..(i - 1) : IdOf(list[j]) # id
    ELSE 0

\* line 120: models.find((m) => m.id === selectedId) ?? null
selectedModel ==
    IF FindIndex(models, selectedId) = 0 THEN Null
    ELSE models[FindIndex(models, selectedId)]

\* lines 184-187: the document handleExport serialises in the current state
ExportData == [i \in 1..Len(models) |->
                  mergeToRaw(MapGet(rawModels, IdOf(models[i])), models[i])]

ExportDocument == JsonCopy(Arr(ExportData))

(***************************************************************************)
(* Bounds of the model and the inputs the events draw from                 *)
(***************************************************************************)
MaxNow == 1        \* the clock runs from 0 to MaxNow
MaxModels == 2     \* add and duplicate stop at this many records
MaxEdits == 2      \* mutations not yet undone, in Spec
MaxDeep == 52      \* mutations not yet undone, in SpecDeep (beyond MAX_UNDO)

\* An imported record with every known field and two fields the editor does
\* not know: foo at the top level and seed inside params.
RawA ==
    Obj([id |-> Str("a"), name |-> Str("A"), owned_by |-> Str("openai"),
         openai |-> Obj([id |-> Str("a")]), urlIdx |-> Num(0),
         connection_type |-> Str("external"), user_id |-> Str("u"),
         base_model_id |-> Null,
         params |-> Obj([temperature |-> Num(1), seed |-> Num(7)]),
         meta |-> Obj([profile_image_url |-> Str(""), description |-> Str("d"),
                       capabilities |-> Obj([vision |-> Bool(TRUE)]),
                       suggestion_prompts |-> Null, tags |-> Arr(<<>>)]),
         access_control |-> Null, is_active |-> Bool(TRUE),
         updated_at |-> Num(0), created_at |-> Num(0), foo |-> Num(1)])

\* An imported record without an id
RawNoId == Obj([name |-> Str("N"), foo |-> Num(3)])

\* What JSON.parse returns for the files the user can pick
ImportDocs == {Arr(<<RawA>>), RawNoId, Null}

ImportFiles == {[parses |-> FALSE, data |-> Undefined]}
               \cup {[parses |-> TRUE, data |-> d] : d \in ImportDocs}

\* What /models-export.json answers: nothing usable, or a document
FetchResponses == {[parses |-> FALSE, data |-> Undefined],
                   [parses |-> TRUE, data |-> Arr(<<RawA>>)]}

\* e.target.value of the temperature input, after the conversion of line 609-612
TemperatureInputs == {Undefined}

\* e.target.value of the Model ID input
ModelIdInputs == {"a"}

\* tagName of the target of a Ctrl+Z / Cmd+Z key event
KeyTargets == {"TEXTAREA", "INPUT", "BODY"}

(***************************************************************************)
(* Presets (presets-context.tsx): the defaults, local storage, and the     *)
(* pure parts of the preset operations                                     *)
(***************************************************************************)
Image(label, url) == Obj([label |-> Str(label), url |-> Str(url)])

UrlIndex(index, label) == Obj([index |-> index, label |-> Str(label)])

DEFAULT_PROFILE_IMAGES ==
    Arr(<<Image("OpenAI", "https://static.lieyan.work/img/ai-icon/openai.png"),
          Image("DeepSeek", "https://static.lieyan.work/img/ai-icon/deepseek.png"),
          Image("Alibaba Qwen", "https://static.lieyan.work/img/ai-icon/qwen.png"),
          Image("Anthropic Claude",
                "https://static.lieyan.work/img/ai-icon/claude-color-1024px.png"),
          Image("Google Gemini",
                "https://static.lieyan.work/img/ai-icon/gemini_sparkle_4g_512_new.png"),
          Image("Z-AI GLM", "https://static.lieyan.work/img/ai-icon/z-ai_glm4.5.svg"),
          Image("Moonshot Kimi",
                "https://static.lieyan.work/img/ai-icon/moonshotai_new.png"),
          Image("xAI Grok",
                "https://static.lieyan.work/img/ai-icon/grok-black-padded.svg")>>)

DEFAULT_URL_INDEXES ==
    Arr(<<UrlIndex(Num(0), "FireAI API"), UrlIndex(Num(1), "OpenRouter"),
          UrlIndex(Num(2), "SiliconFlow")>>)

DEFAULT_TAGS ==
    Arr(<<Str("DeepSeek"), Str("OpenAI"), Str("Anthropic"), Str("Google"),
          Str("MoE"), Str("Reasoning"), Str("Vision"), Str("Aliyun")>>)

DEFAULT_OWNERS == Arr(<<Str("openai")>>)

PresetFields == {"tags", "owners", "profileImages", "urlIndexes"}

DefaultPresets ==
    [tags |-> DEFAULT_TAGS, owners |-> DEFAULT_OWNERS,
     profileImages |-> DEFAULT_PROFILE_IMAGES, urlIndexes |-> DEFAULT_URL_INDEXES]

\* line 94: what JSON.parse will read back from the text setItem stores
StoredOf(p) == JsonCopy(Obj(p))

\* loadFromStorage (lines 74-83): null when there is no item
loadFromStorage == IF storage = Undefined THEN Null ELSE storage

\* lines 87-90: stored.current?.k ?? DEFAULT_k
InitialPresets(stored) ==
    [k \in PresetFields |-> Coalesce(Get(stored, k), DefaultPresets[k])]

\* the fields that start as the DEFAULT_* constant
InitialRefs(stored) == {k \in PresetFields : Nullish(Get(stored, k))}

\* a === b on values that are not objects
StrictEq(a, b) == a = b /\ a # NaN

\* p.map((t) => (t === old ? new : t))
MapReplace(list, old, new) ==
    [i \in 1..Len(list) |-> IF StrictEq(list[i], old) THEN new ELSE list[i]]

\* p.filter((x) => x[k] !== v)
RECURSIVE FilterOut(_, _, _)
FilterOut(list, k, v) ==
    IF list = <<>> THEN <<>>
    ELSE IF StrictEq(Get(Head(list), k), v) THEN FilterOut(Tail(list), k, v)
    ELSE <<Head(list)>> \o FilterOut(Tail(list), k, v)

\* p.filter((t) => t !== v)
RECURSIVE FilterValue(_, _)
FilterValue(list, v) ==
    IF list = <<>> THEN <<>>
    ELSE IF StrictEq(Head(list), v) THEN FilterValue(Tail(list), v)
    ELSE <<Head(list)>> \o FilterValue(Tail(list), v)

\* parseInt(text), text given as its characters: an optional sign, then the
\* leading decimal digits; NaN when there is no digit
DigitValue(c) ==
    IF c = "0" THEN 0 ELSE IF c = "1" THEN 1 ELSE IF c = "2" THEN 2
    ELSE IF c = "3" THEN 3 ELSE IF c = "4" THEN 4 ELSE IF c = "5" THEN 5
    ELSE IF c = "6" THEN 6 ELSE IF c = "7" THEN 7 ELSE IF c = "8" THEN 8
    ELSE IF c = "9" THEN 9 ELSE -1

RECURSIVE LeadingDigits(_, _)
LeadingDigits(text, acc) ==
    IF text = <<>> \/ DigitValue(Head(text)) < 0 THEN acc
    ELSE LeadingDigits(Tail(text), 10 * acc + DigitValue(Head(text)))

ParseInt(text) ==
    LET neg == text # <<>> /\ Head(text) = "-"
        body == IF text # <<>> /\ Head(text) \in {"-", "+"} THEN Tail(text)
                ELSE text
    IN  IF body = <<>> \/ DigitValue(Head(body)) < 0 THEN NaN
        ELSE Num(IF neg THEN 0 - LeadingDigits(body, 0) ELSE LeadingDigits(body, 0))

\* a.index - b.index is a number (null counts as 0); it is NaN otherwise
Comparable(x) == Get(x, "index").t \in {"number", "null"}

SortKey(x) == IF Get(x, "index").t = "number" THEN Get(x, "index").v ELSE 0

\* a stable ascending sort, for entries that are all Comparable
RECURSIVE StableSort(_)
StableSort(list) ==
    IF list = <<>> THEN <<>>
    ELSE LET m == CHOOSE i \in 1..Len(list) :
                     /\ \A j \in 1..Len(list) : SortKey(list[i]) <= SortKey(list[j])
                     /\ \A j \in 1..(i - 1) : SortKey(list[j]) > SortKey(list[i])
         IN  <<list[m]>> \o StableSort(SubSeq(list, 1, m - 1)
                                        \o SubSeq(list, m + 1, Len(list)))

\* the orders of list
RECURSIVE Reorderings(_)
Reorderings(list) ==
    IF list = <<>> THEN {<<>>}
    ELSE UNION {{SubSeq(q, 1, i) \o <<Head(list)>> \o SubSeq(q, i + 1, Len(q)) :
                    i \in 0..Len(q)} : q \in Reorderings(Tail(list))}

\* line 133, list.sort((a, b) => a.index - b.index): the sorted list, or,
\* when the comparator returns NaN for some pair, an order the engine chooses
SortOutcomes(list) ==
    IF \A i \in 1..Len(list) : Comparable(list[i]) THEN {StableSort(list)}
    ELSE Reorderings(list)

\* PresetsProvider mounted with no stored item, its persist effect done
PresetsMounted ==
    /\ presets = DefaultPresets
    /\ presetRefs = PresetFields
    /\ storage = StoredOf(DefaultPresets)
    /\ presetFile = Undefined
    /\ presetOps = 0

(***************************************************************************)
(* Initial state: Home just mounted, the fetch of line 316 under way       *)
(***************************************************************************)
FnIdle ==
    /\ fnRaw = Undefined
    /\ fnEdited = Undefined
    /\ fnResult = Undefined
    /\ fnPc = "idle"

AppInit ==
    /\ models = <<>>
    /\ selectedId = Null
    /\ hasUnsaved = FALSE
    /\ deleteTarget = Null
    /\ rawModels = <<>>
    /\ undoStack = <<>>
    /\ fetchPending = TRUE
    /\ now = 0
    /\ toast = "none"
    /\ event = "mount"
    /\ past = <<>>

Init == AppInit /\ FnIdle /\ PresetsMounted

\* the handler h ran and raised notification t
Raise(h, t) == event' = h /\ toast' = t

\* open={!!deleteTarget}: the modal delete dialog is showing; while it shows,
\* pointer events reach only its two buttons
DialogOpen == ~Falsy(deleteTarget)

(***************************************************************************)
(* The clock                                                               *)
(***************************************************************************)
Tick ==
    /\ now < MaxNow
    /\ now' = now + 1
    /\ UNCHANGED <<models, selectedId, hasUnsaved, deleteTarget, rawModels,
                   undoStack, fetchPending, toast, event, past>>
    /\ UNCHANGED fnVars
    /\ UNCHANGED presetVars

(***************************************************************************)
(* Mount-time fetch (lines 315-325): its completion                        *)
(***************************************************************************)
mountFetch(resp) ==
    /\ fetchPending
    /\ fetchPending' = FALSE
    /\ IF ~resp.parses
       THEN UNCHANGED <<rawModels, models>>
       ELSE /\ rawModels' = RawAfterLoad(AsArray(resp.data))
            /\ models' = IF FirstThrow(AsArray(resp.data)) = 0
                         THEN NormalizeAll(AsArray(resp.data))
                         ELSE models
    /\ Raise("mountFetch", "none")
    /\ UNCHANGED <<selectedId, hasUnsaved, deleteTarget, undoStack, now, past>>
    /\ UNCHANGED fnVars
    /\ UNCHANGED presetVars

(***************************************************************************)
(* handleImport (lines 157-181); the FileReader completion is taken in the *)
(* same step as the change event                                           *)
(***************************************************************************)
handleImport(file) ==
    /\ ~DialogOpen
    /\ IF ~file.parses
       THEN /\ Raise("handleImport", "Invalid JSON file")
            /\ UNCHANGED <<models, selectedId, hasUnsaved, rawModels,
                           undoStack, past>>
       ELSE IF FirstThrow(AsArray(file.data)) # 0
       THEN /\ rawModels' = RawAfterLoad(AsArray(file.data))
            /\ Raise("handleImport", "Invalid JSON file")
            /\ UNCHANGED <<models, selectedId, hasUnsaved, undoStack, past>>
       ELSE /\ rawModels' = RawAfterLoad(AsArray(file.data))
            /\ undoStack' = <<>>
            /\ models' = NormalizeAll(AsArray(file.data))
            /\ selectedId' = Null
            /\ hasUnsaved' = FALSE
            /\ past' = <<>>
            /\ Raise("handleImport", "Loaded models")
    /\ UNCHANGED <<deleteTarget, fetchPending, now>>
    /\ UNCHANGED fnVars
    /\ UNCHANGED presetVars

(***************************************************************************)
(* handleExport (lines 183-197): writes ExportDocument to a file           *)
(***************************************************************************)
handleExport ==
    /\ ~DialogOpen
    /\ Len(models) > 0
    /\ Raise("handleExport", "Exported successfully")
    /\ UNCHANGED <<models, selectedId, hasUnsaved, deleteTarget, rawModels,
                   undoStack, fetchPending, now, past>>
    /\ UNCHANGED fnVars
    /\ UNCHANGED presetVars

(***************************************************************************)
(* handleModelUpdate (lines 199-208) and the editor callbacks that call it *)
(* (model-editor.tsx lines 91-110); the editor shows selectedModel         *)
(***************************************************************************)
\* handleModelUpdate that adds updated when no record has its id
handleModelUpdateUpsert(updated) ==
    /\ models' = IF \E i \in 1..Len(models) : IdOf(models[i]) = IdOf(updated)
                 THEN [i \in 1..Len(models) |->
                          IF IdOf(models[i]) = IdOf(updated) THEN updated
                          ELSE models[i]]
                 ELSE Append(models, updated)
    /\ undoStack' = pushUndo(undoStack, models)
    /\ past' = Append(past, models)
    /\ hasUnsaved' = TRUE
    /\ Raise("handleModelUpdate", "none")
    /\ UNCHANGED <<selectedId, deleteTarget, rawModels, fetchPending, now>>
    /\ UNCHANGED fnVars
    /\ UNCHANGED presetVars

handleModelUpdate(updated) ==
    /\ models' = [i \in 1..Len(models) |->
                     IF IdOf(models[i]) = IdOf(updated) THEN updated
                     ELSE models[i]]
    /\ undoStack' = pushUndo(undoStack, models)
    /\ past' = Append(past, models)
    /\ hasUnsaved' = TRUE
    /\ Raise("handleModelUpdate", "none")
    /\ UNCHANGED <<selectedId, deleteTarget, rawModels, fetchPending, now>>
    /\ UNCHANGED fnVars
    /\ UNCHANGED presetVars

\* the editor is mounted and reachable by the pointer
EditorShown == ~DialogOpen /\ selectedModel # Null

\* update(patch): { ...model, ...patch, updated_at: now }
update(patch) ==
    handleModelUpdate(
        Obj(Assign(Assign(Spread(selectedModel), patch),
                   [updated_at |-> Num(now)])))

\* updateMeta(patch): update({ meta: { ...model.meta, ...patch } })
updateMeta(patch) ==
    update([meta |-> Obj(Assign(Spread(Get(selectedModel, "meta")), patch))])

\* updateParams(patch): update({ params: { ...model.params, ...patch } })
updateParams(patch) ==
    update([params |-> Obj(Assign(Spread(Get(selectedModel, "params")), patch))])

\* model-editor.tsx lines 606-614: the temperature input
editTemperature ==
    /\ EditorShown
    /\ \E value \in TemperatureInputs : updateParams([temperature |-> value])

\* model-editor.tsx line 375: the Active switch hands over the toggled value
editActive ==
    /\ EditorShown
    /\ update([is_active |->
                  Bool(Get(selectedModel, "is_active") # Bool(TRUE))])

\* model-editor.tsx lines 268-272: the Model ID input
editModelId ==
    /\ EditorShown
    /\ \E text \in ModelIdInputs :
          /\ Str(text) # IdOf(selectedModel)
          /\ update([id |-> Str(text)])

(***************************************************************************)
(* handleAddModel (lines 210-248)                                          *)
(***************************************************************************)
NewModelId == Str("new-model-" \o ToString(now))

newModel ==
    Obj([id |-> NewModelId, name |-> Str("New Model"), owned_by |-> Str("openai"),
         openai |-> Obj([id |-> NewModelId, name |-> NewModelId,
                         owned_by |-> Str("openai"),
                         openai |-> Obj([id |-> NewModelId]),
                         urlIdx |-> Num(0),
                         connection_type |-> Str("external")]),
         urlIdx |-> Num(0), connection_type |-> Str("external"),
         user_id |-> Str(""), base_model_id |-> Null, params |-> Obj(EmptyMap),
         meta |-> Obj([profile_image_url |-> Str(""), description |-> Str(""),
                       capabilities |-> Obj(EmptyMap),
                       suggestion_prompts |-> Null, tags |-> Arr(<<>>)]),
         access_control |-> Null, is_active |-> Bool(TRUE),
         updated_at |-> Num(now), created_at |-> Num(now)])

handleAddModel ==
    /\ ~DialogOpen
    /\ Len(models) < MaxModels
    /\ models' = <<newModel>> \o models
    /\ undoStack' = pushUndo(undoStack, models)
    /\ past' = Append(past, models)
    /\ selectedId' = NewModelId
    /\ hasUnsaved' = TRUE
    /\ Raise("handleAddModel", "New model created")
    /\ UNCHANGED <<deleteTarget, rawModels, fetchPending, now>>
    /\ UNCHANGED fnVars
    /\ UNCHANGED presetVars

(***************************************************************************)
(* Delete: handleDeleteModel (250-252), the dialog's onOpenChange (435),   *)
(* confirmDelete (254-264)                                                 *)
(***************************************************************************)
handleDeleteModel ==
    /\ ~DialogOpen
    /\ \E id \in ModelIds : deleteTarget' = id
    /\ Raise("handleDeleteModel", "none")
    /\ UNCHANGED <<models, selectedId, hasUnsaved, rawModels, undoStack,
                   fetchPending, now, past>>
    /\ UNCHANGED fnVars
    /\ UNCHANGED presetVars

cancelDelete ==
    /\ DialogOpen
    /\ deleteTarget' = Null
    /\ Raise("cancelDelete", "none")
    /\ UNCHANGED <<models, selectedId, hasUnsaved, rawModels, undoStack,
                   fetchPending, now, past>>
    /\ UNCHANGED fnVars
    /\ UNCHANGED presetVars

\* prev.filter((m) => m.id !== id)
RECURSIVE Without(_, _)
Without(list, id) ==
    IF list = <<>> THEN <<>>
    ELSE IF IdOf(Head(list)) = id THEN Without(Tail(list), id)
    ELSE <<Head(list)>> \o Without(Tail(list), id)

\* confirmDelete that also forgets the raw record of the deleted id
confirmDeleteDropsRaw ==
    /\ DialogOpen
    /\ models' = Without(models, deleteTarget)
    /\ rawModels' = SelectSeq(rawModels, LAMBDA en : en.key # deleteTarget)
    /\ undoStack' = pushUndo(undoStack, models)
    /\ past' = Append(past, models)
    /\ selectedId' = IF selectedId = deleteTarget THEN Null ELSE selectedId
    /\ deleteTarget' = Null
    /\ hasUnsaved' = TRUE
    /\ Raise("confirmDelete", "Model deleted")
    /\ UNCHANGED <<fetchPending, now>>
    /\ UNCHANGED fnVars
    /\ UNCHANGED presetVars

confirmDelete ==
    /\ DialogOpen
    /\ models' = Without(models, deleteTarget)
    /\ undoStack' = pushUndo(undoStack, models)
    /\ past' = Append(past, models)
    /\ selectedId' = IF selectedId = deleteTarget THEN Null ELSE selectedId
    /\ deleteTarget' = Null
    /\ hasUnsaved' = TRUE
    /\ Raise("confirmDelete", "Model deleted")
    /\ UNCHANGED <<rawModels, fetchPending, now>>
    /\ UNCHANGED fnVars
    /\ UNCHANGED presetVars

(***************************************************************************)
(* handleDuplicateModel (lines 266-288)                                    *)
(***************************************************************************)
DuplicateOf(source, t) ==
    Obj(Assign(Spread(JsonCopy(source)),
               [id |-> Str(Text(IdOf(source)) \o "-copy-" \o ToString(t)),
                name |-> Str(Text(Get(source, "name")) \o " (Copy)"),
                created_at |-> Num(t),
                updated_at |-> Num(t)]))

handleDuplicateModel ==
    /\ ~DialogOpen
    /\ Len(models) < MaxModels
    /\ \E id \in ModelIds :
          LET idx == FindIndex(models, id)
              dup == DuplicateOf(models[idx], now)
          IN  /\ models' = SubSeq(models, 1, idx) \o <<dup>>
                           \o SubSeq(models, idx + 1, Len(models))
              /\ selectedId' = IdOf(dup)
    /\ undoStack' = pushUndo(undoStack, models)
    /\ past' = Append(past, models)
    /\ hasUnsaved' = TRUE
    /\ Raise("handleDuplicateModel", "Model duplicated")
    /\ UNCHANGED <<deleteTarget, rawModels, fetchPending, now>>
    /\ UNCHANGED fnVars
    /\ UNCHANGED presetVars

(***************************************************************************)
(* handleUndo (lines 130-140), from the button and from Ctrl+Z (142-155)   *)
(***************************************************************************)
\* handleUndo without the empty-stack return of lines 132-135
handleUndoNoReturn(h) ==
    /\ models' = IF Len(undoStack) = 0 THEN <<>> ELSE Last(undoStack)
    /\ undoStack' = Front(undoStack)
    /\ past' = Front(past)
    /\ hasUnsaved' = IF Len(undoStack) <= 1 THEN FALSE ELSE hasUnsaved
    /\ Raise(h, "Undone")
    /\ UNCHANGED <<selectedId, deleteTarget, rawModels, fetchPending, now>>
    /\ UNCHANGED fnVars
    /\ UNCHANGED presetVars

\* handleUndo that takes the oldest snapshot (shift) instead of the newest
handleUndoOldest(h) ==
    /\ IF Len(undoStack) = 0
       THEN /\ Raise(h, "Nothing to undo")
            /\ UNCHANGED <<models, undoStack, hasUnsaved, past>>
       ELSE /\ models' = Head(undoStack)
            /\ undoStack' = Tail(undoStack)
            /\ past' = Tail(past)
            /\ hasUnsaved' = IF Len(undoStack) = 1 THEN FALSE ELSE hasUnsaved
            /\ Raise(h, "Undone")
    /\ UNCHANGED <<selectedId, deleteTarget, rawModels, fetchPending, now>>
    /\ UNCHANGED fnVars
    /\ UNCHANGED presetVars

\* handleUndo without the setHasUnsaved(false) of line 138
handleUndoKeepsFlag(h) ==
    /\ IF Len(undoStack) = 0
       THEN /\ Raise(h, "Nothing to undo")
            /\ UNCHANGED <<models, undoStack, hasUnsaved, past>>
       ELSE /\ models' = Last(undoStack)
            /\ undoStack' = Front(undoStack)
            /\ past' = Front(past)
            /\ hasUnsaved' = hasUnsaved
            /\ Raise(h, "Undone")
    /\ UNCHANGED <<selectedId, deleteTarget, rawModels, fetchPending, now>>
    /\ UNCHANGED fnVars
    /\ UNCHANGED presetVars

handleUndo(h) ==
    /\ IF Len(undoStack) = 0
       THEN /\ Raise(h, "Nothing to undo")
            /\ UNCHANGED <<models, undoStack, hasUnsaved, past>>
       ELSE /\ models' = Last(undoStack)
            /\ undoStack' = Front(undoStack)
            /\ past' = Front(past)
            /\ hasUnsaved' = IF Len(undoStack) = 1 THEN FALSE ELSE hasUnsaved
            /\ Raise(h, "Undone")
    /\ UNCHANGED <<selectedId, deleteTarget, rawModels, fetchPending, now>>
    /\ UNCHANGED fnVars
    /\ UNCHANGED presetVars

\* the Undo button: disabled={undoCount === 0}
clickUndo ==
    /\ ~DialogOpen
    /\ Len(undoStack) > 0
    /\ handleUndo("clickUndo")

\* the window keydown listener, for a Ctrl+Z or Cmd+Z without Shift
keydownUndo ==
    \E tag \in KeyTargets :
        IF tag = "TEXTAREA"
        THEN /\ Raise("keydown:" \o tag, "none")
             /\ UNCHANGED <<models, selectedId, hasUnsaved, deleteTarget,
                            rawModels, undoStack, fetchPending, now, past>>
             /\ UNCHANGED fnVars
             /\ UNCHANGED presetVars
        ELSE handleUndo("keydown:" \o tag)

\* the sidebar's onSelect={setSelectedId}
onSelect ==
    /\ ~DialogOpen
    /\ \E id \in ModelIds : selectedId' = id
    /\ Raise("onSelect", "none")
    /\ UNCHANGED <<models, hasUnsaved, deleteTarget, rawModels, undoStack,
                   fetchPending, now, past>>
    /\ UNCHANGED fnVars
    /\ UNCHANGED presetVars

(***************************************************************************)
(* Spec: the application under every event, all within one clock second,  *)
(* with at most MaxEdits mutations pending undo                            *)
(***************************************************************************)
\* room for one more mutation pending undo
CanEdit == Len(past) < MaxEdits

Next ==
    \/ \E resp \in FetchResponses : mountFetch(resp)
    \/ \E file \in ImportFiles : handleImport(file)
    \/ handleExport
    \/ (CanEdit /\ editTemperature)
    \/ (CanEdit /\ editActive)
    \/ (CanEdit /\ editModelId)
    \/ (CanEdit /\ handleAddModel)
    \/ (CanEdit /\ confirmDelete)
    \/ (CanEdit /\ handleDuplicateModel)
    \/ handleDeleteModel
    \/ cancelDelete
    \/ clickUndo
    \/ keydownUndo
    \/ onSelect

Spec == Init /\ [][Next]_vars

(***************************************************************************)
(* SpecClock: the same events with the clock advancing between them        *)
(***************************************************************************)
NextClock == Next \/ Tick

SpecClock == Init /\ [][NextClock]_vars

(***************************************************************************)
(* SpecFn: normalizeModel and mergeToRaw applied to arguments drawn from   *)
(* the sets below                                                          *)
(***************************************************************************)
\* marks a key the record does not have
Absent == [t |-> "absent"]

\* the object with the keys of f that are not marked Absent
Build(f) == Obj([k \in {j \in DOMAIN f : f[j] # Absent} |-> f[k]])

TagT == Obj([name |-> Str("t")])

FnRawIds == {Absent, Str("a")}

\* the plain top-level fields: all present, name null, or all missing
FnRawScalars == {"present", "null name", "missing"}

FnRawMetas ==
    {Absent, Null, Obj(EmptyMap),
     Obj([profile_image_url |-> Str(""), description |-> Str("d"),
          capabilities |-> Obj(EmptyMap), suggestion_prompts |-> Null,
          tags |-> Arr(<<>>)]),
     Obj([profile_image_url |-> Null, description |-> Str("d"),
          tags |-> Arr(<<TagT>>), hidden |-> Bool(TRUE)])}

FnRawParams ==
    {Absent, Null, Obj(EmptyMap),
     Obj([temperature |-> Num(1), seed |-> Num(7)])}

FnRawOpenais ==
    {Absent, Obj([id |-> Str("a")]),
     Obj([id |-> Str("a"), name |-> Str("n"), extra |-> Num(1)])}

FnRawFoos == {Absent, Num(1)}

FnRawOf(i, sc, me, pa, oa, fo) ==
    Build([id |-> i,
           name |-> IF sc = "present" THEN Str("A")
                    ELSE IF sc = "null name" THEN Null ELSE Absent,
           owned_by |-> IF sc = "missing" THEN Absent ELSE Str("openai"),
           urlIdx |-> IF sc = "missing" THEN Absent ELSE Num(0),
           connection_type |-> IF sc = "missing" THEN Absent ELSE Str("external"),
           user_id |-> IF sc = "missing" THEN Absent ELSE Str(""),
           base_model_id |-> IF sc = "missing" THEN Absent ELSE Null,
           access_control |-> IF sc = "missing" THEN Absent ELSE Null,
           is_active |-> IF sc = "missing" THEN Absent ELSE Bool(FALSE),
           updated_at |-> IF sc = "missing" THEN Absent ELSE Num(5),
           created_at |-> IF sc = "missing" THEN Absent ELSE Num(5),
           meta |-> me, params |-> pa, openai |-> oa, foo |-> fo])

FnRaws ==
    {FnRawOf(i, sc, me, pa, oa, fo) :
        i \in FnRawIds, sc \in FnRawScalars, me \in FnRawMetas,
        pa \in FnRawParams, oa \in FnRawOpenais, fo \in FnRawFoos}

\* edited records: a normalized record with the nested fields as the editor
\* can leave them
FnEditMetas ==
    {Obj([profile_image_url |-> Str(""), description |-> Null,
          capabilities |-> Obj(EmptyMap), suggestion_prompts |-> Null,
          tags |-> Arr(<<>>)]),
     Obj([profile_image_url |-> Str(""), description |-> Str("e"),
          capabilities |-> Obj(EmptyMap), suggestion_prompts |-> Null,
          tags |-> Arr(<<>>)]),
     Obj([profile_image_url |-> Str(""), description |-> Null,
          capabilities |-> Obj(EmptyMap),
          suggestion_prompts |-> Arr(<<Str("p")>>), tags |-> Arr(<<>>)]),
     Obj([profile_image_url |-> Str("u"), description |-> Null,
          capabilities |-> Obj([vision |-> Bool(TRUE)]),
          suggestion_prompts |-> Null, tags |-> Arr(<<TagT>>)])}

FnEditParams ==
    {Obj(EmptyMap), Obj([temperature |-> Undefined]),
     Obj([temperature |-> Num(2)]), Obj([system |-> Str("")])}

FnEditOpenais ==
    {Obj([id |-> Str("a")]), Obj([id |-> Str("a"), name |-> Str("")]),
     Obj([id |-> Str("a"), name |-> Str("m")])}

FnEditOf(me, pa, oa) ==
    Obj([id |-> Str("a"), name |-> Str("E"), owned_by |-> Str("openai"),
         openai |-> oa, urlIdx |-> Num(0), connection_type |-> Str("external"),
         user_id |-> Str(""), base_model_id |-> Null, params |-> pa,
         meta |-> me, access_control |-> Null, is_active |-> Bool(TRUE),
         updated_at |-> Num(9), created_at |-> Num(5)])

FnEdits ==
    {FnEditOf(me, pa, oa) :
        me \in FnEditMetas, pa \in FnEditParams, oa \in FnEditOpenais}

\* fnRaw = Undefined: the Map has no entry; fnEdited = Undefined: normalize only
InitFn ==
    /\ AppInit
    /\ PresetsMounted
    /\ fnRaw \in FnRaws \cup {Undefined}
    /\ fnEdited \in FnEdits \cup {Undefined}
    /\ fnResult = Undefined
    /\ fnPc = "start"

CallMerge ==
    /\ fnPc = "start"
    /\ fnEdited # Undefined
    /\ fnResult' = mergeToRaw(fnRaw, fnEdited)
    /\ fnPc' = "merged"
    /\ UNCHANGED <<fnRaw, fnEdited>>
    /\ UNCHANGED appVars
    /\ UNCHANGED presetVars

CallNormalize ==
    /\ fnPc = "start"
    /\ fnEdited = Undefined
    /\ IF ReadThrows(fnRaw)
       THEN fnResult' = Undefined /\ fnPc' = "threw"
       ELSE fnResult' = normalizeModel(fnRaw) /\ fnPc' = "normalized"
    /\ UNCHANGED <<fnRaw, fnEdited>>
    /\ UNCHANGED appVars
    /\ UNCHANGED presetVars

\* mergeToRaw(raw, normalizeModel(raw))
CallRoundTrip ==
    /\ fnPc = "normalized"
    /\ fnResult' = mergeToRaw(fnRaw, fnResult)
    /\ fnPc' = "roundtrip"
    /\ UNCHANGED <<fnRaw, fnEdited>>
    /\ UNCHANGED appVars
    /\ UNCHANGED presetVars

NextFn == CallMerge \/ CallNormalize \/ CallRoundTrip

SpecFn == InitFn /\ [][NextFn]_vars

(***************************************************************************)
(* SpecDeep: one imported record, its Active switch and the Undo button,   *)
(* with more than MAX_UNDO mutations pending                               *)
(***************************************************************************)
DeepFile == [parses |-> TRUE, data |-> Arr(<<RawA>>)]

NextDeep ==
    \/ handleImport(DeepFile)
    \/ onSelect
    \/ (Len(past) < MaxDeep /\ editActive)
    \/ clickUndo

SpecDeep == Init /\ [][NextDeep]_vars

(***************************************************************************)
(* Properties                                                              *)
(***************************************************************************)
\* the handlers that change the record set through setModels + pushUndo
MutationEvents == {"handleModelUpdate", "handleAddModel", "confirmDelete",
                   "handleDuplicateModel"}

\* the events that reach handleUndo
UndoEvents == {"clickUndo", "keydown:INPUT", "keydown:BODY"}

\* the events that load a document
LoadEvents == {"handleImport", "mountFetch"}

MetaKeys == {"profile_image_url", "description", "capabilities",
             "suggestion_prompts", "tags"}

NestedKeys == {"meta", "params", "openai"}

Min(a, b) == IF a < b THEN a ELSE b

\* C1: every top-level field of a stored raw record that the normalized schema
\* does not have is carried, with the raw value, by the exported entry of each
\* current record that has the id the raw record was loaded under.
C1_UnknownFieldsExported ==
    \A e \in 1..Len(rawModels) : \A i \in 1..Len(models) :
        IdOf(models[i]) = IdOf(normalizeModel(rawModels[e].val)) =>
            \A k \in Keys(rawModels[e].val) \ SchemaKeys :
                Get(ExportDocument.v[i], k) = rawModels[e].val.v[k]

\* a raw record with known fields only, at the top level and inside meta
KnownOnly(raw) ==
    /\ Keys(raw) \subseteq SchemaKeys
    /\ Keys(Get(raw, "meta")) \subseteq MetaKeys

\* C2: for a raw record with known fields only, some of them missing, null or
\* empty, mergeToRaw(raw, normalizeModel(raw)) equals raw.
C2_RoundTrip ==
    (fnPc = "roundtrip" /\ KnownOnly(fnRaw)) => fnResult = fnRaw

\* C3: a current record whose id has no RawStore entry is handed to the export
\* by mergeToRaw as it is, and the exported document holds its JSON form.
C3_NewRecordExport ==
    \A i \in 1..Len(models) :
        ~MapHas(rawModels, IdOf(models[i])) =>
            /\ ExportData[i] = models[i]
            /\ ExportDocument.v[i] = JsonCopy(models[i])

C3_Witness ==
    /\ event = "handleExport"
    /\ \E i \in 1..Len(models) :
          /\ ~MapHas(rawModels, IdOf(models[i]))
          /\ ExportData[i] = models[i]
    /\ \E j \in 1..Len(models) : MapHas(rawModels, IdOf(models[j]))

\* C4: the undo stack never holds more than MAX_UNDO snapshots, and every push
\* leaves it holding the most recently pushed snapshots, newest last: one
\* more than before, or still MAX_UNDO with the oldest gone.
C4_UndoBound ==
    /\ [](Len(undoStack) <= MAX_UNDO)
    /\ [][event' \in MutationEvents =>
            /\ Len(undoStack') = Min(Len(undoStack) + 1, MAX_UNDO)
            /\ \A i \in 1..Len(undoStack') :
                  undoStack'[Len(undoStack') + 1 - i]
                      = JsonCopyAll(past'[Len(past') + 1 - i])]_vars

C4_Witness ==
    /\ event = "handleModelUpdate"
    /\ Len(past) > MAX_UNDO
    /\ Len(undoStack) = MAX_UNDO

\* C5: an undo with a non-empty stack makes the current record set exactly the
\* record set that existed before the latest mutation not yet undone.
C5_UndoRestoresExactly ==
    [][(event' \in UndoEvents /\ Len(undoStack) > 0) =>
          models' = Last(past)]_vars

\* C6: each mutation pushes exactly one snapshot, equal to the record set as
\* it was immediately before the mutation.
C6_SnapshotBeforeMutation ==
    [][event' \in MutationEvents =>
          /\ Len(undoStack') = Len(undoStack) + 1
          /\ Last(undoStack') = models]_vars

\* C7: an undo on an empty stack raises "Nothing to undo" and changes none of
\* record set, undo stack, RawStore, selection and unsaved flag.
C7_EmptyUndoNoOp ==
    [][(event' \in UndoEvents /\ Len(undoStack) = 0) =>
          /\ toast' = "Nothing to undo"
          /\ UNCHANGED <<models, undoStack, rawModels, selectedId,
                         hasUnsaved>>]_vars

C7_Witness ==
    /\ event \in UndoEvents
    /\ toast = "Nothing to undo"
    /\ Len(models) > 0
    /\ Len(rawModels) > 0
    /\ selectedId # Null

\* C8: no event other than a load changes the RawStore: not an editor update,
\* an add, a delete, a duplicate, an undo or an export.
C8_RawStoreFrozen ==
    [][event' \notin LoadEvents => rawModels' = rawModels]_vars

C8_Witness ==
    /\ event = "confirmDelete"
    /\ MapHas(rawModels, Str("a"))
    /\ Str("a") \notin ModelIds

\* C9: an import that ends with "Invalid JSON file" leaves record set,
\* RawStore, undo stack, selection and unsaved flag as they were.
C9_FailedImportNoChange ==
    [][(event' = "handleImport" /\ toast' = "Invalid JSON file") =>
          UNCHANGED <<models, rawModels, undoStack, selectedId,
                      hasUnsaved>>]_vars

\* an empty string, an empty array or an empty object
Cleared(v) ==
    \/ v = Str("")
    \/ (IsArr(v) /\ Len(v.v) = 0)
    \/ (IsObj(v) /\ KeysLength(v) = 0)

\* C10: a sub-field of meta, params or openai that the edited record holds
\* cleared, and for which the raw record has no value, is not in the output.
C10_ClearedOnlyIfRawHad ==
    (fnPc = "merged" /\ IsObj(fnRaw)) =>
        \A nk \in NestedKeys : \A sk \in Keys(Get(fnEdited, nk)) :
            (/\ Cleared(Get(fnEdited, nk).v[sk])
             /\ Get(Get(fnRaw, nk), sk) = Undefined)
                => sk \notin Keys(Get(fnResult, nk))

\* C11: every sub-field of meta, params or openai that the raw record has and
\* the edited record does not have is in the mergeToRaw output with its raw
\* value.
C11_NestedPreserved ==
    (fnPc = "merged" /\ IsObj(fnRaw)) =>
        \A nk \in NestedKeys :
            \A sk \in Keys(Get(fnRaw, nk)) \ Keys(Get(fnEdited, nk)) :
                /\ sk \in Keys(Get(fnResult, nk))
                /\ Get(Get(fnResult, nk), sk) = Get(Get(fnRaw, nk), sk)

C11_Witness ==
    /\ fnPc = "merged"
    /\ Get(Get(fnRaw, "params"), "seed") = Num(7)
    /\ Get(Get(fnEdited, "params"), "temperature") = Num(2)
    /\ Get(Get(fnRaw, "meta"), "hidden") = Bool(TRUE)
    /\ Get(Get(fnRaw, "openai"), "extra") = Num(1)
    /\ Get(Get(fnResult, "params"), "seed") = Num(7)

\* C12: every sub-field of meta, params or openai that the edited record holds
\* with a non-empty value has that value in the mergeToRaw output, whether or
\* not the raw record has the sub-field or the nested object.
C12_NestedOverwritten ==
    (fnPc = "merged" /\ IsObj(fnRaw)) =>
        \A nk \in NestedKeys : \A sk \in Keys(Get(fnEdited, nk)) :
            NonEmpty(Get(Get(fnEdited, nk), sk)) =>
                Get(Get(fnResult, nk), sk) = Get(Get(fnEdited, nk), sk)

\* the defaults of lines 54-60 for the sub-fields of meta
MetaDefault(mk) ==
    IF mk = "profile_image_url" THEN Str("")
    ELSE IF mk = "capabilities" THEN Obj(EmptyMap)
    ELSE IF mk = "tags" THEN Arr(<<>>)
    ELSE Null

UserEvents == MutationEvents \cup UndoEvents \cup
              {"handleImport", "handleExport", "handleDeleteModel",
               "cancelDelete", "onSelect", "keydown:TEXTAREA"}

\* C14: every change of the record set, the RawStore or the undo stack is the
\* effect of a user event; no completion of background work changes them.
C14_OnlyUserEvents ==
    [][(models' # models \/ rawModels' # rawModels \/ undoStack' # undoStack)
          => event' \in UserEvents]_vars

\* the fetch completed after the user had added a record to the empty record
\* set: the record set is now the fetched one, the addition is gone
C14_Witness ==
    /\ event = "mountFetch"
    /\ hasUnsaved
    /\ Len(undoStack) = 1 /\ Last(undoStack) = <<>>
    /\ ModelIds = {Str("a")}

\* one snapshot appended at the top, the oldest dropped when over capacity
IsPush ==
    /\ Len(undoStack') = Min(Len(undoStack) + 1, MAX_UNDO)
    /\ Front(undoStack') = IF Len(undoStack) = MAX_UNDO THEN Tail(undoStack)
                           ELSE undoStack

\* the top snapshot removed by an undo
IsPop ==
    /\ event' \in UndoEvents
    /\ Len(undoStack) > 0
    /\ undoStack' = Front(undoStack)

\* C15 as stated: the undo stack changes only by a push at the top or by an
\* undo removing the top entry.
C15_PushOrPopOnly ==
    [][undoStack' # undoStack => (IsPush \/ IsPop)]_vars

\* C15: the undo stack changes only by a push at the top (a mutation), by an
\* undo removing the top entry, or by a successful import, which empties it.
C15_PushPopOrImport ==
    [][undoStack' # undoStack =>
          \/ (event' \in MutationEvents /\ IsPush)
          \/ IsPop
          \/ (/\ event' = "handleImport" /\ toast' = "Loaded models"
              /\ undoStack' = <<>>)]_vars

C15_Witness ==
    /\ event = "clickUndo"
    /\ toast = "Undone"
    /\ Len(undoStack) = 1
    /\ Len(past) = 1

(***************************************************************************)
(* SpecPresets: the preset operations of PresetsProvider and of the        *)
(* presets dialog. Each action is the handler, the render it causes and,   *)
(* when a preset field changed identity, the persist effect of lines 92-96 *)
(***************************************************************************)
MaxUrlIndexes == 4   \* addUrlIndex appends up to this many entries
MaxPresetOps == 2    \* preset operations and reloads in one behaviour

\* what the user types into the dialog's inputs (trimmed, not empty)
TagInputs == {"Vision", "X"}
OwnerInputs == {"openai", "me"}
ImageLabelInputs == {"L"}
ImageUrlInputs == {"https://static.lieyan.work/img/ai-icon/openai.png", "u"}
UrlLabelInputs == {"L"}

\* the value of the type="number" index input, as characters
UrlIndexInputs == {<<"1">>, <<"7">>, <<".", "5">>}

\* the files the presets import can be given
PresetDocs ==
    {Null,
     Obj([tags |-> Arr(<<Str("T")>>)]),
     Obj([tags |-> Arr(<<>>), owners |-> Arr(<<Str("me")>>),
          profileImages |-> Arr(<<Image("L", "u")>>),
          urlIndexes |-> Arr(<<UrlIndex(Num(3), "L")>>)])}

PresetFiles == {[parses |-> FALSE, data |-> Undefined]}
               \cup {[parses |-> TRUE, data |-> d] : d \in PresetDocs}

Includes(list, x) == \E i \in 1..Len(list) : StrictEq(list[i], x)

\* one more preset operation
PresetOp ==
    /\ presetOps < MaxPresetOps
    /\ presetOps' = presetOps + 1

\* the state after handler h: the fields of touched got a new array
PresetCommit(h, t, next, touched) ==
    /\ PresetOp
    /\ presets' = next
    /\ presetRefs' = presetRefs \ touched
    /\ storage' = IF touched = {} THEN storage ELSE StoredOf(next)
    /\ Raise(h, t)
    /\ UNCHANGED <<models, selectedId, hasUnsaved, deleteTarget, rawModels,
                   undoStack, fetchPending, now, past>>
    /\ UNCHANGED fnVars

\* setX((p) => ...) of one field k: a new array, or p itself
SetField(h, k, list, same) ==
    /\ PresetCommit(h, "none",
                    [presets EXCEPT ![k] = IF same THEN @ ELSE Arr(list)],
                    IF same THEN {} ELSE {k})
    /\ UNCHANGED presetFile

addTag ==
    \E tag \in TagInputs :
        LET p == presets.tags.v
        IN  SetField("addTag", "tags", Append(p, Str(tag)), Includes(p, Str(tag)))

removeTag ==
    \E tag \in TagInputs :
        /\ Includes(presets.tags.v, Str(tag))
        /\ SetField("removeTag", "tags",
                    FilterValue(presets.tags.v, Str(tag)), FALSE)

\* EditableBadge commit: trimmed && trimmed !== value
updateTag ==
    \E old \in TagInputs, new \in TagInputs :
        /\ Includes(presets.tags.v, Str(old))
        /\ new # old
        /\ SetField("updateTag", "tags",
                    MapReplace(presets.tags.v, Str(old), Str(new)), FALSE)

addOwner ==
    \E owner \in OwnerInputs :
        LET p == presets.owners.v
        IN  SetField("addOwner", "owners", Append(p, Str(owner)),
                     Includes(p, Str(owner)))

removeOwner ==
    \E owner \in OwnerInputs :
        /\ Includes(presets.owners.v, Str(owner))
        /\ SetField("removeOwner", "owners",
                    FilterValue(presets.owners.v, Str(owner)), FALSE)

updateOwner ==
    \E old \in OwnerInputs, new \in OwnerInputs :
        /\ Includes(presets.owners.v, Str(old))
        /\ new # old
        /\ SetField("updateOwner", "owners",
                    MapReplace(presets.owners.v, Str(old), Str(new)), FALSE)

HasUrl(list, url) == \E i \in 1..Len(list) : StrictEq(Get(list[i], "url"), Str(url))

addProfileImage ==
    \E label \in ImageLabelInputs, url \in ImageUrlInputs :
        LET p == presets.profileImages.v
        IN  SetField("addProfileImage", "profileImages",
                     Append(p, Image(label, url)), HasUrl(p, url))

removeProfileImage ==
    \E url \in ImageUrlInputs :
        /\ HasUrl(presets.profileImages.v, url)
        /\ SetField("removeProfileImage", "profileImages",
                    FilterOut(presets.profileImages.v, "url", Str(url)), FALSE)

updateProfileImage ==
    \E oldUrl \in ImageUrlInputs, label \in ImageLabelInputs,
       url \in ImageUrlInputs :
        LET p == presets.profileImages.v
        IN  /\ HasUrl(p, oldUrl)
            /\ SetField("updateProfileImage", "profileImages",
                        [i \in 1..Len(p) |->
                            IF StrictEq(Get(p[i], "url"), Str(oldUrl))
                            THEN Image(label, url) ELSE p[i]],
                        FALSE)

\* index of the first entry with x.index === index, 0 when there is none
FindUrlIndex(list, index) ==
    IF \E i \in 1..Len(list) : StrictEq(Get(list[i], "index"), index)
    THEN CHOOSE i \in 1..Len(list) :
            /\ StrictEq(Get(list[i], "index"), index)
            /\ \A j \in 1..(i - 1) : ~StrictEq(Get(list[j], "index"), index)
    ELSE 0

\* addUrlIndex (lines 125-135), called by handler h
addUrlIndexFrom(h, index, label) ==
    LET p == presets.urlIndexes.v
        existing == FindUrlIndex(p, index)
    IN  IF existing > 0
        THEN SetField(h, "urlIndexes",
                      [p EXCEPT ![existing] = UrlIndex(index, label)], FALSE)
        ELSE /\ Len(p) < MaxUrlIndexes
             /\ \E sorted \in SortOutcomes(Append(p, UrlIndex(index, label))) :
                   SetField(h, "urlIndexes", sorted, FALSE)

\* lines 399-418: the new-entry inputs
addUrlIndex ==
    \E text \in UrlIndexInputs, label \in UrlLabelInputs :
        addUrlIndexFrom("addUrlIndex", ParseInt(text), label)

\* the entries the events below pick: those an input of the model can name,
\* and those whose index is not a number
UrlTargets ==
    {i \in 1..Len(presets.urlIndexes.v) :
        LET index == Get(presets.urlIndexes.v[i], "index")
        IN  index.t # "number" \/ \E text \in UrlIndexInputs : index = ParseInt(text)}

\* lines 337-357: the label of an entry edited in place; the entry is in
\* edit mode when editingUrlIdx === u.index
editUrlLabel ==
    \E i \in UrlTargets, label \in UrlLabelInputs :
        /\ StrictEq(Get(presets.urlIndexes.v[i], "index"),
                    Get(presets.urlIndexes.v[i], "index"))
        /\ Get(presets.urlIndexes.v[i], "label") # Str(label)
        /\ addUrlIndexFrom("editUrlLabel",
                           Get(presets.urlIndexes.v[i], "index"), label)

\* line 377: removeUrlIndex(u.index)
removeUrlIndex ==
    \E i \in UrlTargets :
        SetField("removeUrlIndex", "urlIndexes",
                 FilterOut(presets.urlIndexes.v, "index",
                           Get(presets.urlIndexes.v[i], "index")),
                 FALSE)

\* importPresets that puts the defaults back before it reads the file
importPresetsClearFirst ==
    \E file \in PresetFiles :
        /\ presetFile' = file
        /\ IF ~file.parses \/ Nullish(file.data)
           THEN PresetCommit("importPresets", "Invalid presets file",
                             DefaultPresets, PresetFields)
           ELSE LET given == {k \in PresetFields : ~Falsy(Get(file.data, k))}
                IN  PresetCommit("importPresets", "Presets imported",
                                 [k \in PresetFields |->
                                     IF k \in given THEN Get(file.data, k)
                                     ELSE DefaultPresets[k]],
                                 PresetFields)

\* importPresets (lines 150-156) inside the dialog's onload (lines 619-625)
importPresets ==
    \E file \in PresetFiles :
        /\ presetFile' = file
        /\ IF ~file.parses \/ Nullish(file.data)
           THEN PresetCommit("importPresets", "Invalid presets file", presets, {})
           ELSE LET given == {k \in PresetFields : ~Falsy(Get(file.data, k))}
                IN  PresetCommit("importPresets", "Presets imported",
                                 [k \in PresetFields |->
                                     IF k \in given THEN Get(file.data, k)
                                     ELSE presets[k]],
                                 given)

\* resetPresets (lines 158-164) after the confirm of line 637: the persist
\* effect runs after removeItem, when a field was not the constant already
resetPresets ==
    /\ PresetOp
    /\ presets' = DefaultPresets
    /\ presetRefs' = PresetFields
    /\ storage' = IF presetRefs = PresetFields THEN Undefined
                  ELSE StoredOf(DefaultPresets)
    /\ Raise("resetPresets", "Presets reset to defaults")
    /\ UNCHANGED presetFile
    /\ UNCHANGED <<models, selectedId, hasUnsaved, deleteTarget, rawModels,
                   undoStack, fetchPending, now, past>>
    /\ UNCHANGED fnVars

\* the page is loaded again: lines 86-96 with what local storage holds
reloadPage ==
    /\ PresetOp
    /\ presets' = InitialPresets(loadFromStorage)
    /\ presetRefs' = InitialRefs(loadFromStorage)
    /\ storage' = StoredOf(InitialPresets(loadFromStorage))
    /\ presetFile' = Undefined
    /\ Raise("mount", "none")
    /\ UNCHANGED <<models, selectedId, hasUnsaved, deleteTarget, rawModels,
                   undoStack, fetchPending, now, past>>
    /\ UNCHANGED fnVars

NextPresets ==
    \/ addTag \/ removeTag \/ updateTag
    \/ addOwner \/ removeOwner \/ updateOwner
    \/ addProfileImage \/ removeProfileImage \/ updateProfileImage
    \/ addUrlIndex \/ editUrlLabel \/ removeUrlIndex
    \/ importPresets \/ resetPresets \/ reloadPage

SpecPresets == Init /\ [][NextPresets]_vars

\* C16: a presets import given text that is not JSON raises "Invalid presets
\* file", and every presets import that raises it leaves tags, owners, profile
\* images and URL indexes, and what local storage holds of them, as they were.
C16_FailedPresetImport ==
    [][event' = "importPresets" =>
          /\ ~presetFile'.parses => toast' = "Invalid presets file"
          /\ toast' = "Invalid presets file" =>
                (presets' = presets /\ storage' = storage)]_vars

C16_Witness ==
    /\ event = "importPresets"
    /\ toast = "Invalid presets file"
    /\ ~presetFile.parses
    /\ presets.tags # DEFAULT_TAGS
    /\ presets.urlIndexes # DEFAULT_URL_INDEXES

\* C17: what a load from local storage yields (the defaults for what is not
\* stored) is the current preset state, after every preset operation and its
\* persist effect.
C17_StorageHoldsPresets ==
    InitialPresets(loadFromStorage) = presets

(***************************************************************************)
(* Delete and keyboard undo in Spec                                        *)
(***************************************************************************)
\* the ids of a list of records
IdsOf(list) == {IdOf(list[i]) : i \in 1..Len(list)}

\* C18, the undo case: when a delete has just been confirmed, an undo does not
\* bring an id that the delete removed back into the record set.
C18_UndoKeepsDeleted ==
    [][(event = "confirmDelete" /\ event' \in UndoEvents) =>
          \A id \in IdsOf(Last(past)) \ ModelIds : id \notin IdsOf(models')]_vars

\* a delete just confirmed: an id is gone and a snapshot is there to undo
C18_Witness ==
    /\ event = "confirmDelete"
    /\ Len(undoStack) > 0
    /\ IdsOf(Last(past)) \ ModelIds # {}

\* C19: a Ctrl+Z / Cmd+Z key event whose target is a textarea or an input
\* leaves the record set and the undo stack unchanged; from any other target
\* it performs exactly one undo (the top snapshot restored and removed, or
\* nothing when the stack is empty).
C19_KeyboardUndoSuppressed ==
    [][/\ event' \in {"keydown:TEXTAREA", "keydown:INPUT"} =>
             (models' = models /\ undoStack' = undoStack)
       /\ event' = "keydown:BODY" =>
             IF Len(undoStack) = 0
             THEN models' = models /\ undoStack' = undoStack
             ELSE models' = Last(undoStack) /\ undoStack' = Front(undoStack)]_vars

\* Ctrl+Z with the focus in an input element, with something to undo
C19_Witness ==
    /\ event = "keydown:INPUT"
    /\ toast = "Undone"

(***************************************************************************)
(* ChangesDialog (src/src/components/changes-dialog.tsx; the copy under    *)
(* src/app has the same classification and compares without normalize).    *)
(* JSON.stringify is modelled by its content (JsonCopy); the order of the  *)
(* keys in the text is not modelled.                                       *)
(***************************************************************************)
\* normalize (lines 30-51): undefined, null, "", [] and objects with nothing
\* but such values are all null
RECURSIVE normalize(_)
normalize(val) ==
    IF Nullish(val) THEN Null
    ELSE IF val = Str("") THEN Null
    ELSE IF IsArr(val) /\ Len(val.v) = 0 THEN Null
    ELSE IF IsObj(val)
    THEN LET kept == {k \in DOMAIN val.v : normalize(val.v[k]) # Null}
         IN  IF kept = {} THEN Null
             ELSE Obj([k \in kept |-> normalize(val.v[k])])
    ELSE val

\* check (lines 60-68): JSON.stringify(normalize(a)) !== JSON.stringify(normalize(b))
check(a, b) == JsonCopy(normalize(a)) # JsonCopy(normalize(b))

\* check of the copy under src/app (lines 31-37): JSON.stringify(a) !== JSON.stringify(b)
checkPlain(a, b) == JsonCopy(a) # JsonCopy(b)

\* the paths compared (lines 70-83), in order; top is "meta" for m.meta?.key
DiffPaths ==
    <<[path |-> "name", top |-> "", key |-> "name"],
      [path |-> "is_active", top |-> "", key |-> "is_active"],
      [path |-> "urlIdx", top |-> "", key |-> "urlIdx"],
      [path |-> "owned_by", top |-> "", key |-> "owned_by"],
      [path |-> "connection_type", top |-> "", key |-> "connection_type"],
      [path |-> "base_model_id", top |-> "", key |-> "base_model_id"],
      [path |-> "params", top |-> "", key |-> "params"],
      [path |-> "meta.description", top |-> "meta", key |-> "description"],
      [path |-> "meta.profile_image_url", top |-> "meta",
       key |-> "profile_image_url"],
      [path |-> "meta.capabilities", top |-> "meta", key |-> "capabilities"],
      [path |-> "meta.builtinTools", top |-> "meta", key |-> "builtinTools"],
      [path |-> "meta.tags", top |-> "meta", key |-> "tags"],
      [path |-> "access_control", top |-> "", key |-> "access_control"],
      [path |-> "openai", top |-> "", key |-> "openai"]>>

\* original.k or original.meta?.k
PathValue(m, p) == IF p.top = "meta" THEN MetaOf(m, p.key) ELSE Get(m, p.key)

PathsOf(checks) == [i \in 1..Len(checks) |-> checks[i].path]

\* diffModel (lines 53-86)
diffModel(original, current) ==
    IF Falsy(original) THEN <<"New model">>
    ELSE PathsOf(SelectSeq(DiffPaths,
                 LAMBDA p : check(PathValue(original, p), PathValue(current, p))))

\* diffModel of the copy under src/app (lines 24-53), which has no
\* meta.builtinTools
diffModelPlain(original, current) ==
    IF Falsy(original) THEN <<"New model">>
    ELSE PathsOf(SelectSeq(DiffPaths,
                 LAMBDA p : /\ p.path # "meta.builtinTools"
                            /\ checkPlain(PathValue(original, p),
                                          PathValue(current, p))))

\* lines 89-98: the records with a non-empty list of changes
ChangesOf(i) == diffModel(MapGet(rawModels, IdOf(models[i])), models[i])

ChangesOfPlain(i) == diffModelPlain(MapGet(rawModels, IdOf(models[i])), models[i])

allChanges ==
    LET all == [i \in 1..Len(models) |->
                   [model |-> models[i], changes |-> ChangesOf(i)]]
    IN  SelectSeq(all, LAMBDA c : Len(c.changes) > 0)

\* [...rawModels.keys()]
RawKeys == [i \in 1..Len(rawModels) |-> rawModels[i].key]

\* deletedIds without the filter
deletedIdsUnfiltered == RawKeys

\* lines 101-102: the RawStore ids that no current record has
deletedIds == SelectSeq(RawKeys, LAMBDA id : id \notin ModelIds)

NoRepeat(list) == \A i, j \in 1..Len(list) : list[i] = list[j] => i = j

\* C20: a current record is reported as new (its list of changes is "New
\* model") exactly when the RawStore has no entry for its id, in both copies
\* of the dialog; the deleted ids are exactly the RawStore ids that no current
\* record has, each once; and no deleted id is the id of a record listed as
\* new or modified.
C20_ChangeClassification ==
    /\ \A i \in 1..Len(models) :
          /\ ChangesOf(i) = <<"New model">> <=> ~MapHas(rawModels, IdOf(models[i]))
          /\ ChangesOfPlain(i) = <<"New model">>
                <=> ~MapHas(rawModels, IdOf(models[i]))
          /\ ~MapHas(rawModels, IdOf(models[i])) =>
                \E j \in 1..Len(allChanges) : allChanges[j].model = models[i]
    /\ {deletedIds[i] : i \in 1..Len(deletedIds)}
          = {rawModels[i].key : i \in 1..Len(rawModels)} \ ModelIds
    /\ NoRepeat(deletedIds)
    /\ \A i \in 1..Len(deletedIds), j \in 1..Len(allChanges) :
          deletedIds[i] # IdOf(allChanges[j].model)

\* a new record, a modified record and a deleted id at once
C20_Witness ==
    /\ Len(deletedIds) > 0
    /\ \E j \in 1..Len(allChanges) : allChanges[j].changes = <<"New model">>

\* an imported record listed as modified
C20_Modified ==
    \E j \in 1..Len(allChanges) :
        /\ allChanges[j].changes # <<"New model">>
        /\ MapHas(rawModels, IdOf(allChanges[j].model))

(***************************************************************************)
(* The unsaved flag, the loaded record set, ids and the selection          *)
(***************************************************************************)
\* C21: the unsaved flag is true if and only if the undo stack is not empty.
C21_UnsavedIffStack == hasUnsaved <=> Len(undoStack) > 0

\* the last snapshot undone: the stack is empty again and the flag is down
C21_Witness ==
    /\ event \in UndoEvents
    /\ toast = "Undone"
    /\ Len(undoStack) = 0
    /\ ~hasUnsaved

\* the records of the RawStore, in load order, normalized
LoadedModels ==
    NormalizeAll([i \in 1..Len(rawModels) |-> rawModels[i].val])

\* C22: when the unsaved flag is false, the current record set is the
\* normalized form of the RawStore's records in load order (empty before any
\* load), also after more than MAX_UNDO mutations and undos down to an empty
\* stack.
C22_NoFlagNoChange == ~hasUnsaved => models = LoadedModels

\* more than MAX_UNDO mutations were made and the stack is empty again
C22_Witness ==
    /\ ~hasUnsaved
    /\ Len(undoStack) = 0
    /\ Len(past) > 0

\* the export document of a record set against the current RawStore
ExportOf(list) ==
    JsonCopy(Arr([i \in 1..Len(list) |->
                     mergeToRaw(MapGet(rawModels, IdOf(list[i])), list[i])]))

\* C23: a mutation followed at once by an undo yields the export document of
\* the state the mutation was applied to.
C23_UndoExportFaithful ==
    [][(event \in MutationEvents /\ event' \in UndoEvents) =>
          ExportDocument' = ExportOf(Last(past))]_vars

\* a mutation applied to a state that holds a param cleared to undefined
C23_Witness ==
    /\ event \in MutationEvents
    /\ Len(undoStack) > 0
    /\ \E i \in 1..Len(Last(past)) :
          /\ "temperature" \in Keys(Get(Last(past)[i], "params"))
          /\ Get(Get(Last(past)[i], "params"), "temperature") = Undefined

\* C24: the ids of the current records are pairwise distinct (every document
\* loaded in Spec has at most one record, and the clock stands still, so that
\* all adds and duplicates fall in the same second).
C24_IdsDistinct ==
    \A i, j \in 1..Len(models) : IdOf(models[i]) = IdOf(models[j]) => i = j

\* two records at once
C24_Witness ==
    /\ Len(models) = 2
    /\ event \in {"handleAddModel", "handleDuplicateModel"}

\* the records the editor can hand to handleModelUpdate in the current state
EditorUpdates ==
    IF selectedModel = Null THEN {}
    ELSE LET with(patch) == Obj(Assign(Assign(Spread(selectedModel), patch),
                                       [updated_at |-> Num(now)]))
         IN  {with([params |-> Obj(Assign(Spread(Get(selectedModel, "params")),
                                          [temperature |-> value]))]) :
                 value \in TemperatureInputs}
             \cup {with([is_active |->
                            Bool(Get(selectedModel, "is_active") # Bool(TRUE))])}
             \cup {with([id |-> Str(text)]) : text \in ModelIdInputs}

\* the record set after is the record set before with exactly the records of
\* updated's id replaced by updated
UpdatedLocally(before, after, updated) ==
    /\ Len(after) = Len(before)
    /\ \A i \in 1..Len(before) :
          after[i] = IF IdOf(before[i]) = IdOf(updated) THEN updated
                     ELSE before[i]
    /\ (\A i \in 1..Len(before) : IdOf(before[i]) # IdOf(updated)) =>
          after = before

\* C25: handleModelUpdate(updated) replaces exactly the records whose id is
\* updated.id by updated; every other record, the order and the count stay;
\* when no record has that id the record set is unchanged.
C25_UpdateIsLocal ==
    [][event' = "handleModelUpdate" =>
          \E updated \in EditorUpdates :
              UpdatedLocally(models, models', updated)]_vars

\* an update that replaced one record and left another one alone
C25_Witness ==
    /\ event = "handleModelUpdate"
    /\ Len(models) = 2
    /\ Len(past) > 0
    /\ Len(Last(past)) = 2
    /\ \E i, j \in 1..2 : /\ models[i] # Last(past)[i]
                          /\ models[j] = Last(past)[j]

\* C26: the selected id is null or the id of a current record.
C26_SelectionValid == selectedId = Null \/ selectedId \in ModelIds

\* an add or a duplicate undone while its record was selected
C26_Witness ==
    /\ event \in UndoEvents
    /\ toast = "Undone"
    /\ fetchPending
    /\ selectedId # Null
    /\ selectedId \notin ModelIds

====
